---------------------------- MODULE Spec2Model ----------------------------
(***************************************************************************)
(* A model of the asset-resolution subsystem of src/util/asset.cpp:        *)
(* AssetSystem::Data (the search path), DirectorySource, ZipSource (EOCD   *)
(* search, central directory index, local header parsing) and the two      *)
(* stream classes ZipSource hands out, CatStream (a window over the        *)
(* archive stream) and DeflateStream.                                      *)
(*                                                                         *)
(* Archives are sequences of bytes laid out as real ZIP files; offset o of *)
(* a file is element o+1 of its sequence.  The std::istream a ZipSource    *)
(* reads is a record [pos, eof, fail, gcount].                             *)
(***************************************************************************)
EXTENDS Integers, Sequences, FiniteSets, TLC

VARIABLES
    m_search_path,  \* AssetSystem::Data::m_search_path, in iteration order
    stream,         \* the stream the caller holds (NoStream when none)
    ret,            \* what the last call returned or threw
    crashed,        \* the process died of a memory error
    held,           \* the other stream the caller holds (NoStream when none)
    map             \* a static_int_map (src/util.hpp) and what is known of
                    \* its use

vars == <<m_search_path, stream, ret, crashed, held, map>>

-----------------------------------------------------------------------------
(* Bounds of the model *)

\* how many sources are registered at most
MaxSources == 2

\* the offsets the caller seeks with are -MaxOff..MaxOff
MaxOff == 4

\* the capacity of the static_int_map (MAX_TEXTURES = 128 in the source)
capacity == 3

\* sizeof(m_storage), 4096 in the source (asset.cpp:101 and :175, and the
\* temporary of asset.cpp:201), scaled so that a payload of a few bytes
\* spans several refills of the get area
StorageSize == 2

(* Program constants *)

\* char window[1024]
WindowSize == 1024
\* for (int i = 0; i < 64; i += 1)
NumWindows == 64
\* char path[1024]
PathMax == 1024
\* the fixed part of a local file header, base += 30 + n + m
LocalFixed == 30
\* the fixed part of a central directory record, base += 46 + n + m + k
CentralFixed == 46

\* the value every throw of asset.cpp throws
FatalError_Decode == "Decode"

-----------------------------------------------------------------------------
(* Bytes and little-endian fields *)

Min(a, b) == IF a < b THEN a ELSE b
Max(a, b) == IF a < b THEN b ELSE a

\* the largest element of a non-empty set of integers
MaxOf(S) == CHOOSE x \in S : \A y \in S : y <= x

LE16(x) == <<x % 256, (x \div 256) % 256>>
LE32(x) == <<x % 256, (x \div 256) % 256, (x \div 65536) % 256,
             (x \div 16777216) % 256>>

\* SDL_Swap16LE / SDL_Swap32LE of the bytes in memory
Swap16LE(b) == b[1] + 256 * b[2]
Swap32LE(b) == b[1] + 256 * b[2] + 65536 * b[3] + 16777216 * b[4]

Zeros(n) == [i \in 1..n |-> 0]

\* n bytes of uninitialised memory: what they hold is not defined, here
\* junk in the first of them and zero in the others
Fill(n, junk) == [i \in 1..n |-> IF i = 1 THEN junk ELSE 0]

\* the bytes of file at offsets [off, off + n)
Bytes(file, off, n) == SubSeq(file, off + 1, off + n)

-----------------------------------------------------------------------------
(* The archives on disk.  An entry is                                      *)
(*   [name, method, data, usize, lextra, cextra, ccomment]                 *)
(* data being the bytes stored in the archive (the compressed bytes).      *)

SigLocal   == <<80, 75, 3, 4>>
SigCentral == <<80, 75, 1, 2>>
SigEOCD    == <<80, 75, 5, 6>>

\* raw deflate of a payload shorter than 65536 bytes as one stored block:
\* BFINAL=1 BTYPE=00, LEN, NLEN, the literal bytes
Deflate(payload) ==
    <<1>> \o LE16(Len(payload)) \o LE16(65535 - Len(payload)) \o payload

Stored(name, payload, lextra) ==
    [name |-> name, method |-> 0, data |-> payload, usize |-> Len(payload),
     lextra |-> lextra, cextra |-> <<>>,
     ccomment |-> <<>>]

Deflated(name, payload, lextra) ==
    [name |-> name, method |-> 8, data |-> Deflate(payload),
     usize |-> Len(payload), lextra |-> lextra, cextra |-> <<>>,
     ccomment |-> <<>>]

LocalHeader(e) ==
    SigLocal \o LE16(20) \o LE16(0) \o LE16(e.method) \o LE16(0) \o LE16(0)
    \o LE32(0) \o LE32(Len(e.data)) \o LE32(e.usize)
    \o LE16(Len(e.name)) \o LE16(Len(e.lextra)) \o e.name \o e.lextra

LocalEntry(e) == LocalHeader(e) \o e.data

CentralRecord(e, off) ==
    SigCentral \o LE16(20) \o LE16(20) \o LE16(0) \o LE16(e.method)
    \o LE16(0) \o LE16(0) \o LE32(0) \o LE32(Len(e.data)) \o LE32(e.usize)
    \o LE16(Len(e.name)) \o LE16(Len(e.cextra)) \o LE16(Len(e.ccomment))
    \o LE16(0) \o LE16(0) \o LE32(0) \o LE32(off) \o e.name \o e.cextra
    \o e.ccomment

EOCDRecord(num, cdsize, cdoff, comment) ==
    SigEOCD \o LE16(0) \o LE16(0) \o LE16(num) \o LE16(num)
    \o LE32(cdsize) \o LE32(cdoff) \o LE16(Len(comment)) \o comment

RECURSIVE Concat(_)
Concat(ss) == IF ss = <<>> THEN <<>> ELSE Head(ss) \o Concat(Tail(ss))

\* the offset of the local header of the i-th entry
RECURSIVE LocalOffset(_, _)
LocalOffset(es, i) ==
    IF i = 1 THEN 0
    ELSE LocalOffset(es, i - 1) + Len(LocalEntry(es[i - 1]))

\* a ZIP file: the local entries, the central directory, the EOCD record
ZipOf(n, locals, central, comment) ==
    locals \o central \o EOCDRecord(n, Len(central), Len(locals), comment)

MkZip(es, comment) ==
    ZipOf(Len(es), Concat([i \in 1..Len(es) |-> LocalEntry(es[i])]),
          Concat([i \in 1..Len(es) |->
                     CentralRecord(es[i], LocalOffset(es, i))]),
          comment)

\* where the End-Of-Central-Directory record of MkZip(es, comment) starts
RealEOCD(es, comment) == Len(MkZip(es, comment)) - 22 - Len(comment)

\* file names: "a" and "b"
NameA == <<97>>
NameB == <<98>>
Keys == {NameA, NameB}

\* a trailing comment that is itself a well-formed, empty EOCD record
FakeEOCD == EOCDRecord(0, 0, 0, <<>>)

\* an entry whose compression method (12, bzip2) is neither 0 nor 8
Unsupported(name, data, lextra) ==
    [name |-> name, method |-> 12, data |-> data, usize |-> Len(data),
     lextra |-> lextra, cextra |-> <<>>,
     ccomment |-> <<>>]

\* an entry in method 8 whose bytes are no deflate stream
Corrupt(name, data) ==
    [name |-> name, method |-> 8, data |-> data, usize |-> Len(data),
     lextra |-> <<>>, cextra |-> <<>>,
     ccomment |-> <<>>]

\* a stored entry whose headers give a size of usize bytes, more than the
\* bytes of its payload
Overlong(name, payload, usize) ==
    [name |-> name, method |-> 0, data |-> payload, usize |-> usize,
     lextra |-> <<>>, cextra |-> <<>>,
     ccomment |-> <<>>]

\* a file: pad zero bytes, then the ZIP file of es and comment, less its last
\* cut bytes
File(es, comment, pad, cut) ==
    [es |-> es, comment |-> comment, pad |-> pad, cut |-> cut,
     tail |-> FALSE]

\* a ZIP file of two entries whose second local entry lies behind the EOCD
\* record, as the trailing comment: its payload is the end of the file
TailOffset(e1, e2) ==
    Len(LocalEntry(e1)) + Len(CentralRecord(e1, 0))
    + Len(CentralRecord(e2, 0)) + 22
TailZip(e1, e2) ==
    ZipOf(2, LocalEntry(e1),
          CentralRecord(e1, 0) \o CentralRecord(e2, TailOffset(e1, e2)),
          LocalEntry(e2))
TailFile(e1, e2) ==
    [es |-> <<e1, e2>>, comment |-> <<>>, pad |-> 0, cut |-> 0,
     tail |-> TRUE]

\* a well-formed archive
Zip(es, comment) == File(es, comment, 0, 0)

\* what each file of the catalog is made of
ArchiveSpec ==
    << \* 1: "a" stored with a local extra field, "b" deflated
       Zip(<<Stored(NameA, <<122, 105, 112>>, <<9, 9>>),
             Deflated(NameB, <<120, 121>>, <<>>)>>, <<>>),
       \* 2: other content under the same names
       Zip(<<Stored(NameA, <<90, 73>>, <<>>),
             Stored(NameB, <<>>, <<>>)>>, <<33>>),
       \* 3: a trailing comment that holds the EOCD signature
       Zip(<<Stored(NameA, <<99, 111, 109>>, <<>>)>>, FakeEOCD),
       \* 4: two central directory records named "a"
       Zip(<<Stored(NameA, <<49, 115, 116>>, <<>>),
             Stored(NameA, <<50, 110, 100>>, <<7>>)>>, <<>>),
       \* 5: "b" alone, in an unsupported method
       Zip(<<Unsupported(NameB, <<66, 90>>, <<>>)>>, <<>>),
       \* 6: "a" deflated from six bytes
       Zip(<<Deflated(NameA, <<100, 101, 102, 108, 116, 101>>, <<>>)>>,
           <<>>),
       \* 7: an archive that ends eight bytes into its EOCD record, before
       \* the record count
       File(<<Stored(NameA, <<99, 117, 116>>, <<>>)>>, <<>>, 0, 14),
       \* 8: three bytes, no EOCD signature
       File(<<>>, <<>>, 3, 22),
       \* 9: "a" in method 8 with bytes that start a block of the reserved
       \* type 3 (BFINAL = 1, BTYPE = 11), which inflate rejects
       Zip(<<Corrupt(NameA, <<7, 0, 0, 0>>)>>, <<>>),
       \* 10: two stored entries of two bytes, the central directory record
       \* of the first with an extra field and a file comment
       Zip(<<[Stored(NameA, <<115, 104>>, <<>>)
                 EXCEPT !.cextra = <<5>>, !.ccomment = <<6, 6>>],
             Stored(NameB, <<114, 101>>, <<>>)>>, <<>>),
       \* 11: "a" stored, and "b" stored at the end of the file with a size
       \* field of one byte more than the file has
       TailFile(Stored(NameA, <<111, 107>>, <<>>),
                Overlong(NameB, <<108, 103>>, 3)),
       \* 12: a file of more than two windows with a trailing comment of a
       \* length that puts the EOCD signature across the start of the last
       \* window of WindowSize bytes
       Zip(<<Stored(NameA, <<119, 105, 110>>, Zeros(WindowSize))>>,
           Zeros(WindowSize - 20)),
       \* 13: zero bytes filling more than NumWindows windows, no signature
       File(<<>>, <<>>, NumWindows * WindowSize + 5, 22) >>

ArchiveIds == DOMAIN ArchiveSpec

\* the bytes of a file of the catalog
FileBytes(s) ==
    IF s.tail THEN TailZip(s.es[1], s.es[2])
    ELSE SubSeq(Zeros(s.pad) \o MkZip(s.es, s.comment), 1,
                s.pad + Len(MkZip(s.es, s.comment)) - s.cut)

Archives == [a \in ArchiveIds |-> FileBytes(ArchiveSpec[a])]

\* the file that takes more than NumWindows windows to scan
BigArchive == Len(ArchiveSpec)

-----------------------------------------------------------------------------
(* The std::istream over an archive file (m_file / m_data)                 *)

\* a freshly opened std::ifstream
FreshFile == [pos |-> 0, eof |-> FALSE, fail |-> FALSE, gcount |-> 0]

ist_good(f) == ~f.eof /\ ~f.fail

\* is.seekg(target, std::ios::beg): clears eofbit, does nothing once failed,
\* fails on a negative target; a file may be positioned past its end
ist_seekg(f, target) ==
    IF f.fail THEN [f EXCEPT !.eof = FALSE]
    ELSE IF target < 0 THEN [f EXCEPT !.eof = FALSE, !.fail = TRUE]
    ELSE [f EXCEPT !.eof = FALSE, !.pos = target]

\* is.seekg(0, std::ios::end)
ist_seekg_end(f, file) ==
    IF f.fail THEN [f EXCEPT !.eof = FALSE]
    ELSE [f EXCEPT !.eof = FALSE, !.pos = Len(file)]

\* a read of n bytes that finds k of them
ist_read_k(f, file, n, k) ==
    [f |-> [pos |-> f.pos + k, eof |-> k < n, fail |-> k < n, gcount |-> k],
     bytes |-> Bytes(file, f.pos, k)]

\* is.read(buf, n): the bytes stored into buf and the stream afterwards; a
\* stream that is not good reads nothing, a short read sets eofbit|failbit
ist_read(f, file, n) ==
    IF ~ist_good(f)
    THEN [f |-> [f EXCEPT !.fail = TRUE, !.gcount = 0], bytes |-> <<>>]
    ELSE ist_read_k(f, file, n, Min(n, Max(Len(file) - f.pos, 0)))

\* is.tellg(): -1 when the stream is not good (the sentry then sets failbit)
ist_tellg(f) ==
    IF ~ist_good(f) THEN [f |-> [f EXCEPT !.fail = TRUE], val |-> -1]
    ELSE [f |-> f, val |-> f.pos]

\* is.clear(std::ios::eofbit): the state becomes exactly eofbit
ist_clear_eofbit(f) == [f EXCEPT !.eof = TRUE, !.fail = FALSE]

-----------------------------------------------------------------------------
(* ZipSource: reading the fields, finding the EOCD record, the index.      *)
(* A function of several statements is a chain of definitions, each taking *)
(* what the statements before it produced.                                 *)

\* result = SDL_Swap16LE(result) after is.read(&result, 2) gave r: result
\* is not initialised by the callers, so the bytes a short read leaves
\* unwritten hold junk
swap16(r, junk) ==
    [f |-> r.f, val |-> Swap16LE(r.bytes \o Fill(2 - Len(r.bytes), junk))]

swap32(r, junk) ==
    [f |-> r.f, val |-> Swap32LE(r.bytes \o Fill(4 - Len(r.bytes), junk))]

\* static void read(uint16_t &result, std::istream &is)
read16(f, file, junk) == swap16(ist_read(f, file, 2), junk)

\* static void read(uint32_t &result, std::istream &is)
read32(f, file, junk) == swap32(ist_read(f, file, 4), junk)

\* the first match of a scan that goes from the highest j down
first_hit(hits) == IF hits = {} THEN -1 ELSE MaxOf(hits)

\* the inner loop of seek_end_of_central_directory:
\*   for (int j = is.gcount() - sizeof(sig); j >= 0; j -= 1)
\*     if (memcmp(sig, window + j, sizeof(sig)) == 0)
window_match(window, gcount) ==
    first_hit({j \in 0..(gcount - 4) : SubSeq(window, j + 1, j + 4) = SigEOCD})

\* getpos = std::max<std::streamoff>(getpos, 0).  getpos is unsigned in the
\* source and wraps below zero; the conversion to std::streamoff gives the
\* signed value back, which is what is kept here.
eocd_getpos(getpos) == Max(getpos, 0)

\* is.seekg(getpos, std::ios::beg); is.read(window, sizeof(window))
eocd_window(file, f, gp) == ist_read(ist_seekg(f, gp), file, WindowSize)

\* the j the inner loop stops at in the window read at gp, -1 if it ends
eocd_match(file, f, gp) ==
    window_match(eocd_window(file, f, gp).bytes,
                 eocd_window(file, f, gp).f.gcount)

RECURSIVE eocd_scan(_, _, _, _, _)

\* a scan that goes on past the 64th window
eocd_scan_unbounded(file, gp, i, r, j) ==
    CASE j >= 0 ->
           [ok |-> TRUE, f |-> ist_seekg(ist_clear_eofbit(r.f), gp + j),
            windows |-> i + 1]
      [] j < 0 /\ gp = 0 -> [ok |-> FALSE, f |-> r.f, windows |-> i + 1]
      [] OTHER ->
           eocd_scan(file, eocd_getpos(gp - WindowSize), i + 1,
                     eocd_window(file, r.f, eocd_getpos(gp - WindowSize)),
                     eocd_match(file, r.f, eocd_getpos(gp - WindowSize)))

\* the outer loop of seek_end_of_central_directory from iteration i on, the
\* read of that iteration at gp having given r and the inner loop j: the
\* signature was found at window + j, or the window at offset 0 has been
\* searched (break), or i + 1 reaches 64, or the scan moves one window back
eocd_scan(file, gp, i, r, j) ==
    CASE j >= 0 ->
           [ok |-> TRUE, f |-> ist_seekg(ist_clear_eofbit(r.f), gp + j),
            windows |-> i + 1]
      [] j < 0 /\ gp = 0 -> [ok |-> FALSE, f |-> r.f, windows |-> i + 1]
      [] j < 0 /\ gp # 0 /\ i + 1 >= NumWindows ->
           [ok |-> FALSE, f |-> r.f, windows |-> i + 1]
      [] OTHER ->
           eocd_scan(file, eocd_getpos(gp - WindowSize), i + 1,
                     eocd_window(file, r.f, eocd_getpos(gp - WindowSize)),
                     eocd_match(file, r.f, eocd_getpos(gp - WindowSize)))

\* seek_end_of_central_directory once file_size = is.tellg() gave t
eocd_sized(file, t) ==
    IF ist_good(t.f) /\ 0 < NumWindows
    THEN eocd_scan(file, eocd_getpos(t.val - WindowSize), 0,
                   eocd_window(file, t.f, eocd_getpos(t.val - WindowSize)),
                   eocd_match(file, t.f, eocd_getpos(t.val - WindowSize)))
    ELSE [ok |-> FALSE, f |-> t.f, windows |-> 0]

\* static void seek_end_of_central_directory(std::istream &is):
\* ok = FALSE is the throw of FatalError::Decode; windows is the number of
\* windows it read
seek_end_of_central_directory(file, f) ==
    eocd_sized(file, ist_tellg(ist_seekg_end(f, file)))

\* an index maps a name to the offset of its local file header
EmptyIndex == [n \in {} |-> 0]

\* a map whose insertion replaces the element held under an equal key
index_assign(idx, name, off) ==
    [x \in DOMAIN idx \cup {name} |-> IF x = name THEN off ELSE idx[x]]

\* m_index.emplace(std::move(name), off_file): an unordered_map keeps the
\* element it already holds under an equal key
index_emplace(idx, name, off) ==
    IF name \in DOMAIN idx THEN idx ELSE idx @@ (name :> off)

\* the fields of the central directory record at base:
\* [f, n, m, k, off_file]
cd_off(nv, mv, kv, off) ==
    [f |-> off.f, n |-> nv, m |-> mv, k |-> kv, off_file |-> off.val]
cd_k(file, junk, base, nv, mv, k) ==
    cd_off(nv, mv, k.val, read32(ist_seekg(k.f, base + 42), file, junk))
cd_m(file, junk, base, nv, m) ==
    cd_k(file, junk, base, nv, m.val, read16(m.f, file, junk))
cd_n(file, junk, base, n) ==
    cd_m(file, junk, base, n.val, read16(n.f, file, junk))
cd_fields(file, f, junk, base) ==
    cd_n(file, junk, base, read16(ist_seekg(f, base + 28), file, junk))

RECURSIVE init_records(_, _, _, _, _, _, _)

\* the same with a stride that leaves out the length of the file comment
init_name_no_comment(file, junk, base, i, num_records, idx, h, nm) ==
    init_records(file, nm.f, junk, base + CentralFixed + h.n + h.m,
                 i + 1, num_records,
                 index_emplace(idx, nm.bytes \o Zeros(h.n - Len(nm.bytes)),
                               h.off_file))

\* std::string name(n, '\0'); m_file.read(name.data(), n) having given nm;
\* m_index.emplace; base += 46 + n + m + k
init_name(file, junk, base, i, num_records, idx, h, nm) ==
    init_records(file, nm.f, junk, base + CentralFixed + h.n + h.m + h.k,
                 i + 1, num_records,
                 index_emplace(idx, nm.bytes \o Zeros(h.n - Len(nm.bytes)),
                               h.off_file))

init_record(file, junk, base, i, num_records, idx, h) ==
    init_name(file, junk, base, i, num_records, idx, h,
              ist_read(h.f, file, h.n))

\* the loop of init() over the central directory records, from record i on
init_records(file, f, junk, base, i, num_records, idx) ==
    IF i >= num_records THEN [ok |-> TRUE, f |-> f, m_index |-> idx]
    ELSE init_record(file, junk, base, i, num_records, idx,
                     cd_fields(file, f, junk, base))

\* init() from the EOCD record on: base = m_file.tellg() gave t
init_num(file, junk, num_records, off_records) ==
    init_records(file, off_records.f, junk, off_records.val, 0,
                 num_records.val, EmptyIndex)
init_off(file, junk, base, num_records) ==
    init_num(file, junk, num_records,
             read32(ist_seekg(num_records.f, base + 16), file, junk))
init_eocd(file, junk, t) ==
    init_off(file, junk, t.val,
             read16(ist_seekg(t.f, t.val + 8), file, junk))

init_found(file, junk, s) ==
    IF ~s.ok
    THEN [ok |-> FALSE, f |-> s.f, m_index |-> EmptyIndex,
          windows |-> s.windows]
    ELSE init_eocd(file, junk, ist_tellg(s.f))

\* void init(): [ok, f, m_index]; ok = FALSE is the throw of
\* seek_end_of_central_directory, windows then being the number of windows
\* the scan read
init(file, f0, junk) ==
    init_found(file, junk, seek_end_of_central_directory(file, f0))

-----------------------------------------------------------------------------
(* The files on disk outside the archives: the directory "d" holds "a",    *)
(* the root directory holds "b".                                           *)

Slash == <<47>>
DirD  == <<100>>
DirX  == <<120>>

Disk == (DirD \o Slash \o NameA) :> <<100, 105, 114>>
        @@ (Slash \o NameB) :> <<114, 116>>

DiskDirs == {DirD}

\* the paths add_directory is called with: "d" is a directory, "x" does not
\* exist, "/b" is a file
DirPaths == {DirD, DirX, Slash \o NameB}

\* the archive paths add_zip is called with: 0 is a path with no file
ZipPaths == ArchiveIds \cup {0}

\* the archives whose last entry declares more bytes than the file holds
TailArchives == {a \in ArchiveIds : ArchiveSpec[a].tail}

\* the archives single streams are read from: not the file of more than
\* NumWindows windows, and not the ones read by two streams in turn
ReadZipPaths == ZipPaths \ ({BigArchive} \cup TailArchives)

\* the archives two streams are opened from: the ones of two stored entries
ShareZipPaths ==
    {a \in ArchiveIds :
        /\ Len(ArchiveSpec[a].es) > 1
        /\ \A k \in DOMAIN ArchiveSpec[a].es : ArchiveSpec[a].es[k].method = 0
        /\ \A j, k \in DOMAIN ArchiveSpec[a].es :
              j # k => ArchiveSpec[a].es[j].name # ArchiveSpec[a].es[k].name}

-----------------------------------------------------------------------------
(* The streams handed to the caller.  buf is the get area (the first       *)
(* gcount bytes of m_storage) and g the number of its bytes consumed;      *)
(* eof and fail are the flags of the std::istream around the buffer.       *)
(* History kept for the properties: out/offs are the bytes delivered since *)
(* the stream was opened or last repositioned and the archive offsets they *)
(* came from (bufoff is the offset of buf[1]); rlo/rhi is the range of the *)
(* last read the archive stream carried out for the stream; zin counts the *)
(* bytes fed to the inflate engine.                                        *)

NoStream == [kind |-> "none"]

NewStream(kind, id, key, beg, end) ==
    [kind |-> kind, src |-> id, key |-> key, path |-> <<>>,
     m_off_beg |-> beg, m_off_end |-> end, m_off_pos |-> beg,
     buf |-> <<>>, g |-> 0, eof |-> FALSE, fail |-> FALSE,
     bufoff |-> beg, out |-> <<>>, offs |-> <<>>,
     rlo |-> beg, rhi |-> beg, zin |-> 0]

\* CatStream(std::istream &data, pos_type beg, pos_type end)
CatStream(id, key, beg, end) == NewStream("cat", id, key, beg, end)

\* DeflateStream(std::istream &data, pos_type beg, pos_type end);
\* inflateInit2 is taken to succeed
DeflateStream(id, key, beg, end) == NewStream("deflate", id, key, beg, end)

\* std::ifstream(path, std::ios::binary) of a file on disk: the window is
\* the whole file, the bytes come from Disk[path]
FileStream(id, key, path) ==
    [NewStream("file", id, key, 0, Len(Disk[path])) EXCEPT !.path = path]

\* setg(nullptr, nullptr, nullptr)
setg_null(s) == [s EXCEPT !.buf = <<>>, !.g = 0]

\* the end of CatStream's underflow: m_data.read() asked for [lo, lo + n)
\* and gave r, m_data.tellg() gave t
cat_filled(s, lo, n, r, t) ==
    IF r.f.gcount = 0
    THEN [s |-> IF r.f.eof
                THEN [setg_null(s) EXCEPT !.rlo = lo, !.rhi = lo + n]
                ELSE setg_null(s),
          f |-> r.f, eof |-> TRUE]
    ELSE [s |-> [s EXCEPT !.buf = r.bytes, !.g = 0, !.bufoff = lo,
                          !.m_off_pos = t.val, !.rlo = lo, !.rhi = lo + n],
          f |-> t.f, eof |-> FALSE]

cat_read(s, lo, n, r) == cat_filled(s, lo, n, r, ist_tellg(r.f))

\* m_data.seekg(m_off_pos, std::ios::beg) gave f1;
\* m_data.read(m_storage, std::min(m_off_end - m_off_pos, sizeof(m_storage)))
cat_seeked(s, f1, file, n) == cat_read(s, f1.pos, n, ist_read(f1, file, n))

\* an underflow that goes to the archive whatever the window holds
cat_underflow_unchecked(s, f, file) ==
    cat_seeked(s, ist_seekg(f, s.m_off_pos), file,
               Min(s.m_off_end - s.m_off_pos, StorageSize))

\* CatStream::StreamBuffer::underflow(): [s, f, eof]
cat_underflow(s, f, file) ==
    IF s.m_off_end <= s.m_off_pos
    THEN [s |-> setg_null(s), f |-> f, eof |-> TRUE]
    ELSE cat_seeked(s, ist_seekg(f, s.m_off_pos), file,
                    Min(s.m_off_end - s.m_off_pos, StorageSize))

\* an accepted seek that leaves the get area as it is
cat_seek_to_keep(s, req, val) ==
    [s |-> [s EXCEPT !.m_off_pos = req, !.out = <<>>, !.offs = <<>>],
     val |-> val]

\* a seek that is accepted: the get area is dropped, m_off_pos = req
cat_seek_to(s, req, val) ==
    [s |-> [setg_null(s) EXCEPT !.m_off_pos = req, !.out = <<>>,
                                !.offs = <<>>],
     val |-> val]

\* CatStream::StreamBuffer::seekpos(pos, which): [s, val]
cat_seekpos(s, pos) ==
    IF pos + s.m_off_beg <= s.m_off_end
    THEN cat_seek_to(s, pos + s.m_off_beg, pos)
    ELSE [s |-> s, val |-> -1]

\* the end of seekoff for cur and end: req is the absolute target
cat_seekoff_req(s, req) ==
    IF s.m_off_beg <= req /\ req <= s.m_off_end
    THEN cat_seek_to(s, req, req - s.m_off_beg)
    ELSE [s |-> s, val |-> -1]

\* CatStream::StreamBuffer::seekoff(off, dir, which): [s, val]
cat_seekoff(s, off, dir) ==
    CASE dir = "cur" -> cat_seekoff_req(s, off + s.m_off_pos)
      [] dir = "end" -> cat_seekoff_req(s, off + s.m_off_end)
      [] OTHER -> cat_seekpos(s, off)

\* the end of DeflateStream's underflow: the chunk is handed to inflate()
\* and the function ends without a return statement and without setg:
\* undefined = TRUE, the value the caller gets is not defined
deflate_filled(s, lo, n, r, t) ==
    IF r.f.gcount = 0
    THEN [s |-> IF r.f.eof
                THEN [setg_null(s) EXCEPT !.rlo = lo, !.rhi = lo + n]
                ELSE setg_null(s),
          f |-> r.f, eof |-> TRUE, undefined |-> FALSE]
    ELSE [s |-> [s EXCEPT !.m_off_pos = t.val, !.zin = s.zin + r.f.gcount,
                          !.rlo = lo, !.rhi = lo + n],
          f |-> t.f, eof |-> FALSE, undefined |-> TRUE]

deflate_read(s, lo, n, r) == deflate_filled(s, lo, n, r, ist_tellg(r.f))

deflate_seeked(s, f1, file, n) ==
    deflate_read(s, f1.pos, n, ist_read(f1, file, n))

\* DeflateStream::StreamBuffer::underflow(): [s, f, eof, undefined]
deflate_underflow(s, f, file) ==
    IF s.m_off_end <= s.m_off_pos
    THEN [s |-> setg_null(s), f |-> f, eof |-> TRUE, undefined |-> FALSE]
    ELSE deflate_seeked(s, ist_seekg(f, s.m_off_pos), file,
                        Min(s.m_off_end - s.m_off_pos, StorageSize))

-----------------------------------------------------------------------------
(* The caller's side of a stream: the std::istream members it calls        *)

Deliver(s, b, off) ==
    [s EXCEPT !.out = Append(@, b), !.offs = Append(@, off)]

AtEof(s) == [s EXCEPT !.eof = TRUE, !.fail = TRUE]

\* what a call whose value is not defined may hand back: a memory fault
\* (uflow dereferences the null gptr), end-of-file (-1), or a byte that is
\* no part of the data (0 and 1 are zlib's Z_OK and Z_STREAM_END)
UBOutcomes == {[crash |-> TRUE, val |-> 0]}
              \cup {[crash |-> FALSE, val |-> v] : v \in {-1, 0, 1}}

Got(s, f, val) == [s |-> s, f |-> f, val |-> val, crash |-> FALSE]

\* uflow() of a CatStream, underflow() having given u
get_cat(u) ==
    IF u.eof THEN Got(AtEof(u.s), u.f, -1)
    ELSE Got(Deliver([u.s EXCEPT !.g = 1], u.s.buf[1], u.s.bufoff),
             u.f, u.s.buf[1])

\* uflow() of a DeflateStream, underflow() having given u
get_deflate(u, ub) ==
    IF u.eof \/ (u.undefined /\ ~ub.crash /\ ub.val = -1)
    THEN Got(AtEof(u.s), u.f, -1)
    ELSE IF ub.crash
    THEN [s |-> u.s, f |-> u.f, val |-> -1, crash |-> TRUE]
    ELSE Got(Deliver(u.s, ub.val, -1), u.f, ub.val)

\* a std::ifstream over Disk[s.path]
get_file(s, f) ==
    IF s.m_off_pos >= s.m_off_end THEN Got(AtEof(s), f, -1)
    ELSE Got(Deliver([s EXCEPT !.m_off_pos = s.m_off_pos + 1],
                     Disk[s.path][s.m_off_pos + 1], s.m_off_pos),
             f, Disk[s.path][s.m_off_pos + 1])

\* std::istream::get() on a stream: sbumpc(), which takes the next byte of
\* the get area or calls uflow()/underflow().  [s, f, val, crash], val = -1
\* being traits_type::eof()
istream_get(s, f, file, ub) ==
    IF s.eof \/ s.fail THEN Got([s EXCEPT !.fail = TRUE], f, -1)
    ELSE IF s.g < Len(s.buf)
    THEN Got(Deliver([s EXCEPT !.g = s.g + 1], s.buf[s.g + 1],
                     s.bufoff + s.g), f, s.buf[s.g + 1])
    ELSE CASE s.kind = "cat" -> get_cat(cat_underflow(s, f, file))
           [] s.kind = "deflate" ->
                get_deflate(deflate_underflow(s, f, file), ub)
           [] OTHER -> get_file(s, f)

\* a std::filebuf is repositioned anywhere at or after the file's start
file_seek(s, req) ==
    IF req >= 0
    THEN [s |-> [s EXCEPT !.m_off_pos = req, !.out = <<>>, !.offs = <<>>],
          val |-> req]
    ELSE [s |-> s, val |-> -1]

\* rdbuf()->pubseekoff(off, dir, in): CatStream overrides seekoff,
\* DeflateStream keeps std::streambuf's, which returns -1.  [s, val]
pubseekoff(s, off, dir) ==
    CASE s.kind = "cat" -> cat_seekoff(s, off, dir)
      [] s.kind = "deflate" -> [s |-> s, val |-> -1]
      [] OTHER -> file_seek(s, CASE dir = "cur" -> off + s.m_off_pos
                                 [] dir = "end" -> off + s.m_off_end
                                 [] OTHER -> off)

\* the end of seekg: failbit when the buffer's seek returned -1
seekg_done(r) ==
    [s |-> [r.s EXCEPT !.fail = (r.val = -1)], called |-> TRUE,
     val |-> r.val]

\* std::istream::seekg(off, dir): clears eofbit; unless the stream has
\* failed, calls pubseekoff.  [s, called, val]: val is what the buffer's
\* seek returned
istream_seekg(s, off, dir) ==
    IF s.fail
    THEN [s |-> [s EXCEPT !.eof = FALSE], called |-> FALSE, val |-> -1]
    ELSE seekg_done(pubseekoff([s EXCEPT !.eof = FALSE], off, dir))

-----------------------------------------------------------------------------
(* The sources of the search path.  A source is                            *)
(*   [p, id, kind, arg, m_path, m_index, m_file]                           *)
(* id numbers the sources in the order they were added and arg is what the *)
(* source was constructed from (a directory path or an archive).           *)

\* a constructor that takes whatever exists at path, directory or not
DirectorySource_any(path) ==
    IF path \notin DiskDirs \cup DOMAIN Disk
    THEN [ok |-> FALSE, err |-> FatalError_Decode, n |-> 0]
    ELSE [ok |-> TRUE, err |-> "", n |-> 0,
          src |-> [kind |-> "dir", arg |-> path, m_path |-> <<>>,
                   m_index |-> EmptyIndex, m_file |-> FreshFile]]

\* explicit DirectorySource(const char *path): the constructor checks the
\* path and returns; m_path is left as default-constructed, empty
DirectorySource(path) ==
    IF path \notin DiskDirs \cup DOMAIN Disk
    THEN [ok |-> FALSE, err |-> FatalError_Decode, n |-> 0]
    ELSE IF path \notin DiskDirs
    THEN [ok |-> FALSE, err |-> FatalError_Decode, n |-> 0]
    ELSE [ok |-> TRUE, err |-> "", n |-> 0,
          src |-> [kind |-> "dir", arg |-> path, m_path |-> <<>>,
                   m_index |-> EmptyIndex, m_file |-> FreshFile]]

\* the end of the constructor, init() having given r
ZipSource_init(a, r) ==
    IF ~r.ok THEN [ok |-> FALSE, err |-> FatalError_Decode, n |-> r.windows]
    ELSE [ok |-> TRUE, err |-> "", n |-> 0,
          src |-> [kind |-> "zip", arg |-> <<a>>, m_path |-> <<>>,
                   m_index |-> r.m_index, m_file |-> r.f]]

\* explicit ZipSource(const char *path)
ZipSource(a, junk) ==
    IF a \notin ArchiveIds
    THEN [ok |-> FALSE, err |-> FatalError_Decode, n |-> 0]
    ELSE ZipSource_init(a, init(Archives[a], FreshFile, junk))

\* the archive a ZipSource reads
ArchiveOf(src) == Archives[src.arg[1]]

\* the end of DirectorySource::open: path is "%s/%s" of m_path and key
dir_open_path(src, key, path) ==
    IF PathMax <= Len(path) \/ path \notin DOMAIN Disk
    THEN [res |-> "null", f |-> src.m_file, stream |-> NoStream]
    ELSE [res |-> "stream", f |-> src.m_file,
          stream |-> FileStream(src.id, key, path)]

\* DirectorySource::open(key): [res, f, stream], res = "null" is a miss
DirectorySource_open(src, key) ==
    dir_open_path(src, key, src.m_path \o Slash \o key)

\* the fields of the local file header at base:
\* [f, compression, decode_size, n, m]
lh_m(cv, dv, nv, m) ==
    [f |-> m.f, compression |-> cv, decode_size |-> dv, n |-> nv,
     m |-> m.val]
lh_n(file, junk, cv, dv, n) ==
    lh_m(cv, dv, n.val, read16(n.f, file, junk))
lh_size(file, junk, base, cv, d) ==
    lh_n(file, junk, cv, d.val,
         read16(ist_seekg(d.f, base + 26), file, junk))
lh_compression(file, junk, base, c) ==
    lh_size(file, junk, base, c.val,
            read32(ist_seekg(c.f, base + 22), file, junk))
lh_fields(file, f, junk, base) ==
    lh_compression(file, junk, base,
                   read16(ist_seekg(f, base + 8), file, junk))

\* the end of ZipSource::open: base += 30 + n + m; switch (compression)
zip_open_switch(src, key, h, beg) ==
    CASE h.compression = 0 ->
           [res |-> "stream", f |-> h.f,
            stream |-> CatStream(src.id, key, beg, beg + h.decode_size)]
      [] h.compression = 8 ->
           [res |-> "stream", f |-> h.f,
            stream |-> DeflateStream(src.id, key, beg, beg + h.decode_size)]
      [] OTHER -> [res |-> "throw", err |-> FatalError_Decode, f |-> h.f,
                   stream |-> NoStream]

\* a payload start that leaves the extra field out: base += 30 + n
zip_open_header_no_extra(src, key, base, h) ==
    zip_open_switch(src, key, h, base + LocalFixed + h.n)

zip_open_header(src, key, base, h) ==
    zip_open_switch(src, key, h, base + LocalFixed + h.n + h.m)

\* ZipSource::open(key): [res, f, stream]; res = "throw" is FatalError::Decode
ZipSource_open(src, key, junk) ==
    IF key \notin DOMAIN src.m_index
    THEN [res |-> "null", f |-> src.m_file, stream |-> NoStream]
    ELSE zip_open_header(src, key, src.m_index[key],
                         lh_fields(ArchiveOf(src), src.m_file, junk,
                                   src.m_index[key]))

\* std::visit([=](auto &resolve) { return resolve.open(key); }, source)
source_open(src, key, junk) ==
    IF src.kind = "dir" THEN DirectorySource_open(src, key)
    ELSE ZipSource_open(src, key, junk)

\* m_search_path.emplace(p, ...): a multimap puts the new element after the
\* elements whose key is not greater
multimap_emplace(sp, e) ==
    [i \in 1..(Len(sp) + 1) |->
        IF i <= Cardinality({j \in 1..Len(sp) : sp[j].p <= e.p}) THEN sp[i]
        ELSE IF i = Cardinality({j \in 1..Len(sp) : sp[j].p <= e.p}) + 1
        THEN e
        ELSE sp[i - 1]]

RECURSIVE search_from(_, _, _, _)

\* one iteration of the loop, the source's open having given r
search_step(sp, i, key, junk, r) ==
    IF r.res = "null"
    THEN search_from([sp EXCEPT ![i].m_file = r.f], i + 1, key, junk)
    ELSE [res |-> r.res, err |-> IF r.res = "throw" THEN r.err ELSE "",
          sp |-> [sp EXCEPT ![i].m_file = r.f], stream |-> r.stream,
          last |-> i]

\* a loop that throws a value of its own when every source has missed
search_from_not_found(sp, i, key, junk) ==
    IF i > Len(sp)
    THEN [res |-> "throw", err |-> "NotFound", sp |-> sp,
          stream |-> NoStream, last |-> Len(sp)]
    ELSE search_step(sp, i, key, junk, source_open(sp[i], key, junk))

\* the loop of AssetSystem::Data::open over m_search_path from element i:
\* [res, err, sp, stream, last]; res = "throw" is a throw of err, last is
\* the place in m_search_path of the last source that was asked
search_from(sp, i, key, junk) ==
    IF i > Len(sp)
    THEN [res |-> "throw", err |-> FatalError_Decode, sp |-> sp,
          stream |-> NoStream, last |-> Len(sp)]
    ELSE search_step(sp, i, key, junk, source_open(sp[i], key, junk))

Priorities == {1, 2}
Junk == {0, 1}

\* the archives the search path of Spec is built from; 0 is no file and 8
\* a file without an EOCD record
SearchZipPaths == {0, 1, 2, 5, 8}

SeekOffsets == (0 - MaxOff)..MaxOff
SeekDirs == {"beg", "cur", "end"}

SourceById(id) ==
    m_search_path[CHOOSE j \in 1..Len(m_search_path) :
                     m_search_path[j].id = id]

-----------------------------------------------------------------------------
(* static_int_map<T, num> (src/util.hpp): num_free_objects,                *)
(* num_used_objects and the array free_objects, indexed from 0.  Kept with *)
(* it for the properties: live, the indices insert() returned that were    *)
(* not removed since, and oob, whether remove() wrote outside the array.   *)

\* value_type free_objects[capacity] is not initialised; no element is read
\* before remove() wrote it
static_int_map ==
    [num_free_objects |-> 0, num_used_objects |-> 0,
     free_objects |-> [i \in 0..(capacity - 1) |-> 0],
     live |-> {}, oob |-> FALSE]

\* insert(): [m, null, value].  v is what free_objects[num_free_objects]
\* holds when that element is outside the array
map_insert(m, v) ==
    IF m.num_free_objects # 0
    THEN [m |-> [m EXCEPT !.num_free_objects = m.num_free_objects - 1],
          null |-> FALSE,
          value |-> IF m.num_free_objects - 1 < capacity
                    THEN m.free_objects[m.num_free_objects - 1]
                    ELSE v]
    ELSE IF m.num_used_objects < capacity
    THEN [m |-> [m EXCEPT !.num_used_objects = m.num_used_objects + 1],
          null |-> FALSE, value |-> m.num_used_objects]
    ELSE [m |-> m, null |-> TRUE, value |-> 0]

\* a remove(i) that always writes the first element of the array
map_remove_first(m, i) ==
    [m EXCEPT !.free_objects[0] = i,
              !.num_free_objects = m.num_free_objects + 1]

\* remove(i) past its assertion: a write at an index of the array, or a
\* write behind the array, which lands in what follows it in memory
map_remove(m, i) ==
    IF m.num_free_objects < capacity
    THEN [m EXCEPT !.free_objects[m.num_free_objects] = i,
                   !.num_free_objects = m.num_free_objects + 1]
    ELSE [m EXCEPT !.num_free_objects = m.num_free_objects + 1,
                   !.oob = TRUE]

-----------------------------------------------------------------------------
(* The operations                                                          *)

\* ret = [op, key, arg, val, n]: the call, the name and the number it was
\* given, how it ended (for a throw, the value thrown) and a number: what a
\* seek returned, the byte a read returned, how many sources an open asked,
\* how many windows the scan of an add_zip that threw had read
Ret(op, key, arg, val, n) ==
    [op |-> op, key |-> key, arg |-> arg, val |-> val, n |-> n]
NoRet == Ret("none", <<>>, 0, "", 0)

Init ==
    /\ m_search_path = <<>>
    /\ stream = NoStream
    /\ ret = NoRet
    /\ crashed = FALSE
    /\ held = NoStream
    /\ map = static_int_map

\* m_search_path.emplace(...) with the source's constructor having given r:
\* a constructor that throws leaves the map as it was
\* an add whose failure empties the search path
emplace_source_reset(op, p, key, r) ==
    /\ Len(m_search_path) < MaxSources
    /\ IF r.ok
       THEN /\ m_search_path' = multimap_emplace(m_search_path,
                   r.src @@ [p |-> p, id |-> Len(m_search_path) + 1])
            /\ ret' = Ret(op, key, p, "ok", 0)
       ELSE /\ m_search_path' = <<>>
            /\ ret' = Ret(op, key, p, r.err, r.n)
    /\ UNCHANGED <<stream, crashed, held, map>>

emplace_source(op, p, key, r) ==
    /\ Len(m_search_path) < MaxSources
    /\ IF r.ok
       THEN /\ m_search_path' = multimap_emplace(m_search_path,
                   r.src @@ [p |-> p, id |-> Len(m_search_path) + 1])
            /\ ret' = Ret(op, key, p, "ok", 0)
       ELSE /\ m_search_path' = m_search_path
            /\ ret' = Ret(op, key, p, r.err, r.n)
    /\ UNCHANGED <<stream, crashed, held, map>>

\* void add_directory(unsigned p, const char *path)
add_directory(p, path) ==
    /\ ~crashed
    /\ emplace_source("add_directory", p, path, DirectorySource(path))

\* void add_zip(unsigned p, const char *path)
add_zip(p, a, junk) ==
    /\ ~crashed
    /\ emplace_source("add_zip", p, <<a>>, ZipSource(a, junk))

\* the search having given r
open_result(key, r) ==
    /\ m_search_path' = r.sp
    /\ stream' = r.stream
    /\ ret' = Ret("open", key, 0,
                  IF r.res = "stream" THEN "stream" ELSE r.err, r.last)
    /\ UNCHANGED <<crashed, held, map>>

\* std::unique_ptr<std::istream> open(const char *key); the caller holds
\* one stream at a time
open(key, junk) ==
    /\ ~crashed
    /\ stream = NoStream
    /\ open_result(key, search_from(m_search_path, 1, key, junk))

\* the archive a stream reads and the state of that archive's std::istream
StreamFile(s) == IF s.kind = "file" THEN <<>> ELSE ArchiveOf(SourceById(s.src))
StreamIst(s)  == SourceById(s.src).m_file

get_result(r) ==
    /\ stream' = r.s
    /\ m_search_path' =
         [i \in 1..Len(m_search_path) |->
             IF m_search_path[i].id = stream.src
             THEN [m_search_path[i] EXCEPT !.m_file = r.f]
             ELSE m_search_path[i]]
    /\ ret' = Ret("get", stream.key, 0,
                  IF r.crash THEN "crash"
                  ELSE IF r.val = -1 THEN "eof" ELSE "byte", r.val)
    /\ crashed' = r.crash
    /\ UNCHANGED <<held, map>>

\* the caller reads one byte of its stream
get(ub) ==
    /\ ~crashed
    /\ stream # NoStream
    /\ get_result(istream_get(stream, StreamIst(stream), StreamFile(stream),
                              ub))

seekg_result(off, dir, r) ==
    /\ stream' = r.s
    /\ ret' = Ret("seekg", stream.key, off,
                  IF r.called THEN dir ELSE "none", r.val)
    /\ UNCHANGED <<m_search_path, crashed, held, map>>

\* the caller repositions its stream
seekg(off, dir) ==
    /\ ~crashed
    /\ stream # NoStream
    /\ seekg_result(off, dir, istream_seekg(stream, off, dir))

\* std::istream::clear()
clear ==
    /\ ~crashed
    /\ stream # NoStream
    /\ stream.eof \/ stream.fail
    /\ stream' = [stream EXCEPT !.eof = FALSE, !.fail = FALSE]
    /\ ret' = Ret("clear", stream.key, 0, "", 0)
    /\ UNCHANGED <<m_search_path, crashed, held, map>>

\* the caller destroys its stream
close ==
    /\ ~crashed
    /\ stream # NoStream
    /\ stream' = NoStream
    /\ ret' = Ret("close", stream.key, 0, "", 0)
    /\ UNCHANGED <<m_search_path, crashed, held, map>>

\* the caller turns to the other stream it holds: its next calls are made
\* on that one
turn ==
    /\ ~crashed
    /\ stream # NoStream \/ held # NoStream
    /\ stream' = held
    /\ held' = stream
    /\ ret' = Ret("turn", <<>>, 0, "", 0)
    /\ UNCHANGED <<m_search_path, crashed, map>>

\* insert() having given r
insert_result(r) ==
    /\ map' = [r.m EXCEPT !.live = IF r.null THEN @ ELSE @ \cup {r.value}]
    /\ ret' = Ret("insert", <<>>, 0, IF r.null THEN "null" ELSE "index",
                  r.value)
    /\ UNCHANGED <<m_search_path, stream, crashed, held>>

\* optional_array_index<value_type> insert()
insert(v) ==
    /\ ~crashed
    /\ insert_result(map_insert(map, v))

\* void remove(value_type i): the assertion ends the process when it does
\* not hold; a write behind the array is a memory error that ends the
\* process (fault) or goes unnoticed
remove(i, fault) ==
    /\ ~crashed
    /\ map.num_free_objects <= capacity
    /\ IF ~(i < map.num_used_objects)
       THEN /\ crashed' = TRUE
            /\ map' = map
            /\ ret' = Ret("remove", <<>>, i, "abort", 0)
       ELSE /\ crashed' = (fault /\ ~(map.num_free_objects < capacity))
            /\ map' = [map_remove(map, i) EXCEPT !.live = @ \ {i}]
            /\ ret' = Ret("remove", <<>>, i, "", 0)
    /\ UNCHANGED <<m_search_path, stream, held>>

\* the search path and the streams read front to back
Next ==
    \/ \E p \in Priorities, path \in DirPaths : add_directory(p, path)
    \/ \E p \in Priorities, a \in SearchZipPaths, junk \in Junk :
          add_zip(p, a, junk)
    \/ \E key \in Keys, junk \in Junk : open(key, junk)
    \/ \E ub \in UBOutcomes : get(ub)
    \/ close

Spec == Init /\ [][Next]_vars

\* one archive, and every operation of the stream opened from it
register(a, junk) == m_search_path = <<>> /\ add_zip(1, a, junk)

NextStream ==
    \/ \E a \in ZipPaths, junk \in Junk : register(a, junk)
    \/ \E key \in Keys, junk \in Junk : open(key, junk)
    \/ \E ub \in UBOutcomes : get(ub)
    \/ \E off \in SeekOffsets, dir \in SeekDirs : seekg(off, dir)
    \/ clear
    \/ close

SpecStream == Init /\ [][NextStream]_vars

\* archives only, all at one priority and searched in the order they were
\* added in, their streams read front to back
NextRead ==
    \/ \E a \in ReadZipPaths, junk \in Junk : add_zip(1, a, junk)
    \/ \E key \in Keys, junk \in Junk : open(key, junk)
    \/ \E ub \in UBOutcomes : get(ub)
    \/ close

SpecRead == Init /\ [][NextRead]_vars

\* the offsets the caller of two streams seeks with: one byte back, none,
\* one byte on
ShareOffsets == {off \in SeekOffsets : -1 <= off /\ off <= 1}

\* one archive and two streams opened from it, their calls interleaved
NextShare ==
    \/ \E a \in ShareZipPaths, junk \in Junk : register(a, junk)
    \/ \E key \in Keys, junk \in Junk : open(key, junk)
    \/ \E ub \in UBOutcomes : get(ub)
    \/ \E off \in ShareOffsets, dir \in SeekDirs : seekg(off, dir)
    \/ turn

SpecShare == Init /\ [][NextShare]_vars

\* a static_int_map whose user removes the indices it was given, each once
NextMapUse ==
    \/ \E v \in 0..capacity : insert(v)
    \/ \E i \in map.live, fault \in BOOLEAN : remove(i, fault)

SpecMapUse == Init /\ [][NextMapUse]_vars

\* a static_int_map whose user removes any index
NextMap ==
    \/ \E v \in 0..capacity : insert(v)
    \/ \E i \in 0..capacity, fault \in BOOLEAN : remove(i, fault)

SpecMap == Init /\ [][NextMap]_vars

-----------------------------------------------------------------------------
(* What the archives and the disk hold, for the properties                 *)

IsPrefix(a, b) == Len(a) <= Len(b) /\ a = SubSeq(b, 1, Len(a))

\* the entries archive a was made of
Entries(a) == ArchiveSpec[a].es

\* where the local header of the k-th entry of archive a lies
EntryOffset(a, k) ==
    IF ArchiveSpec[a].tail /\ k = 2
    THEN TailOffset(Entries(a)[1], Entries(a)[2])
    ELSE LocalOffset(Entries(a), k)

\* the records of a's central directory that carry name
RecordsNamed(a, name) ==
    {i \in DOMAIN Entries(a) : Entries(a)[i].name = name}

\* whether a source holds key: a directory has the file, an archive has a
\* central directory record of that name
Holds(src, key) ==
    IF src.kind = "dir" THEN (src.arg \o Slash \o key) \in DOMAIN Disk
    ELSE RecordsNamed(src.arg[1], key) # {}

\* the fields of the local file header at offset hdr of file
HdrMethod(file, hdr) == Swap16LE(Bytes(file, hdr + 8, 2))
HdrCompressedSize(file, hdr) == Swap32LE(Bytes(file, hdr + 18, 4))
HdrNameLen(file, hdr)  == Swap16LE(Bytes(file, hdr + 26, 2))
HdrExtraLen(file, hdr) == Swap16LE(Bytes(file, hdr + 28, 2))
PayloadStart(file, hdr) ==
    hdr + 30 + HdrNameLen(file, hdr) + HdrExtraLen(file, hdr)
Payload(file, hdr) ==
    Bytes(file, PayloadStart(file, hdr), HdrCompressedSize(file, hdr))

\* the local file header the stream s was opened from
StreamHdr(s) == SourceById(s.src).m_index[s.key]

\* raw inflate of a stream made of one final stored block
Inflate(data) == SubSeq(data, 6, 5 + Swap16LE(SubSeq(data, 2, 3)))

\* whether seq holds the EOCD signature
HoldsSig(seq) ==
    \E j \in 0..(Len(seq) - 4) : SubSeq(seq, j + 1, j + 4) = SigEOCD

ZipSources == {i \in DOMAIN m_search_path : m_search_path[i].kind = "zip"}

-----------------------------------------------------------------------------
(* C1: for a name held by two registered sources of different priorities,  *)
(* open(name) returns a stream over what the source of the numerically     *)
(* lowest priority holds, whatever the order the sources were added in.    *)
C1_LowestPriorityWins ==
    (ret.op = "open"
     /\ \E i, j \in DOMAIN m_search_path :
           /\ Holds(m_search_path[i], ret.key)
           /\ Holds(m_search_path[j], ret.key)
           /\ m_search_path[i].arg # m_search_path[j].arg
           /\ m_search_path[i].p # m_search_path[j].p)
    => /\ ret.val = "stream"
       /\ \E i \in DOMAIN m_search_path :
             /\ Holds(m_search_path[i], ret.key)
             /\ \A j \in DOMAIN m_search_path :
                   Holds(m_search_path[j], ret.key)
                   => m_search_path[i].p <= m_search_path[j].p
             /\ stream.src = m_search_path[i].id
             /\ stream.kind = "file"
                => stream.path = m_search_path[i].arg \o Slash \o ret.key

C3_RoundTrip ==
    stream.kind = "deflate"
    => /\ ~crashed
       /\ (ret.op = "get" /\ ret.val = "eof")
          => stream.out = Inflate(Payload(StreamFile(stream),
                                          StreamHdr(stream)))

(* C4: the directory source registered with add_directory(p, path) that is *)
(* first in the search path resolves open(name) to the file path/name, and *)
(* a name with no file in the directory is a miss for that source.         *)
C4_DirectoryResolves ==
    (ret.op = "open" /\ m_search_path # <<>>
     /\ m_search_path[1].kind = "dir")
    => IF Holds(m_search_path[1], ret.key)
       THEN /\ ret.val = "stream"
            /\ stream.kind = "file"
            /\ stream.src = m_search_path[1].id
            /\ stream.path = m_search_path[1].arg \o Slash \o ret.key
       ELSE ret.val = "stream" => stream.src # m_search_path[1].id

(* C5: the stored position of a window stream stays within its window,     *)
(* begin <= position <= end, after any reads and seeks.                    *)
C5_PositionInWindow ==
    stream.kind = "cat"
    => /\ stream.m_off_beg <= stream.m_off_pos
       /\ stream.m_off_pos <= stream.m_off_end

(* C6: every byte a window stream delivers is an archive byte at an offset *)
(* o with begin <= o < end, and no read of the archive stream made for it  *)
(* reaches before begin or past end.                                       *)
C6_NoByteOutsideWindow ==
    stream.kind = "cat"
    => /\ \A i \in DOMAIN stream.offs :
             /\ stream.m_off_beg <= stream.offs[i]
             /\ stream.offs[i] < stream.m_off_end
       /\ stream.m_off_beg <= stream.rlo
       /\ stream.rhi <= stream.m_off_end

\* the relative offset a seek of a window stream asks for
SeekTarget(s, off, dir) ==
    CASE dir = "cur" -> off + s.m_off_pos - s.m_off_beg
      [] dir = "end" -> off + s.m_off_end - s.m_off_beg
      [] OTHER -> off

(* C7: a seek of a window stream, from the start, the current position or  *)
(* the end, whose target is below 0 or above end - begin returns -1 and    *)
(* leaves the position as it was.                                          *)
C7_BadSeekFails ==
    [][(stream.kind = "cat" /\ ret'.op = "seekg" /\ ret'.val \in SeekDirs
        /\ SeekTarget(stream, ret'.arg, ret'.val)
              \notin 0..(stream.m_off_end - stream.m_off_beg))
       => (ret'.n = -1 /\ stream'.m_off_pos = stream.m_off_pos)]_vars

(* C8: the index of a registered archive whose trailing comment holds the  *)
(* EOCD signature is the one of its central directory: the names of the    *)
(* records, each with the local header offset of a record of that name.    *)
C8_RealEOCD ==
    \A i \in ZipSources :
       HoldsSig(ArchiveSpec[m_search_path[i].arg[1]].comment)
       => /\ DOMAIN m_search_path[i].m_index
               = {e.name : e \in {Entries(m_search_path[i].arg[1])[k] :
                                     k \in DOMAIN Entries(m_search_path[i].arg[1])}}
          /\ \A name \in DOMAIN m_search_path[i].m_index :
                \E k \in RecordsNamed(m_search_path[i].arg[1], name) :
                   m_search_path[i].m_index[name]
                      = EntryOffset(m_search_path[i].arg[1], k)

(* C9: the window of a stream opened from an archive entry, stored or      *)
(* deflate, ends compressed-size bytes after the payload start.            *)
C9_WindowIsCompressedSize ==
    stream.kind \in {"cat", "deflate"}
    => /\ stream.m_off_beg = PayloadStart(StreamFile(stream), StreamHdr(stream))
       /\ stream.m_off_end = stream.m_off_beg
             + HdrCompressedSize(StreamFile(stream), StreamHdr(stream))

\* the first and the last central directory record of a that carries name
FirstRecord(a, name) ==
    CHOOSE i \in RecordsNamed(a, name) : \A j \in RecordsNamed(a, name) : i <= j
LastRecord(a, name) ==
    CHOOSE i \in RecordsNamed(a, name) : \A j \in RecordsNamed(a, name) : j <= i

(* C10 as claimed: the index maps a name that several records of the       *)
(* central directory carry to the local header offset of the last of them. *)
C10_LastWins ==
    \A i \in ZipSources :
       \A name \in DOMAIN m_search_path[i].m_index :
          RecordsNamed(m_search_path[i].arg[1], name) # {}
          => m_search_path[i].m_index[name]
                = EntryOffset(m_search_path[i].arg[1],
                              LastRecord(m_search_path[i].arg[1], name))

(* C10 as amended: the index maps a name that several records of the       *)
(* central directory carry to the local header offset of the first of      *)
(* them, and open(name) returns a stream over the first record's entry.    *)
C10_FirstWins ==
    /\ \A i \in ZipSources :
          \A name \in DOMAIN m_search_path[i].m_index :
             RecordsNamed(m_search_path[i].arg[1], name) # {}
             => m_search_path[i].m_index[name]
                   = EntryOffset(m_search_path[i].arg[1],
                                 FirstRecord(m_search_path[i].arg[1], name))
    /\ (stream.kind = "cat"
        /\ RecordsNamed(SourceById(stream.src).arg[1], stream.key) # {})
       => stream.m_off_beg
             = EntryOffset(SourceById(stream.src).arg[1],
                           FirstRecord(SourceById(stream.src).arg[1],
                                       stream.key))
               + Len(LocalHeader(Entries(SourceById(stream.src).arg[1])
                        [FirstRecord(SourceById(stream.src).arg[1],
                                     stream.key)]))

\* the entry "a" of the archive with two records of that name has been read
\* to end-of-data and the bytes are the first record's
C10_Witness ==
    /\ stream.kind = "cat"
    /\ Cardinality(RecordsNamed(SourceById(stream.src).arg[1], stream.key)) = 2
    /\ ret.op = "get" /\ ret.val = "eof"
    /\ stream.out = Entries(SourceById(stream.src).arg[1])[1].data

-----------------------------------------------------------------------------
(* What open(key) meets in a search path of archives                       *)

\* no archive of the search path has key in its index
NotFound(key) ==
    \A i \in ZipSources : key \notin DOMAIN m_search_path[i].m_index

\* what ZipSource::open throws for the entries it does not support: the
\* values the sources of the search path throw for the names of their index
UnsupportedErrors ==
    {ZipSource_open(m_search_path[i], k, 0).err :
        i \in {j \in ZipSources :
                 \E k \in DOMAIN m_search_path[j].m_index :
                    ZipSource_open(m_search_path[j], k, 0).res = "throw"},
        k \in {x \in Keys :
                 \E j \in ZipSources :
                    /\ x \in DOMAIN m_search_path[j].m_index
                    /\ ZipSource_open(m_search_path[j], x, 0).res = "throw"}}

(* C11 as claimed: the value open(name) reports when no registered source  *)
(* has the name differs from the value reported for an entry in an         *)
(* unsupported compression method.                                         *)
C11_DistinctErrors ==
    (ret.op = "open" /\ NotFound(ret.key)) => ret.val \notin UnsupportedErrors

\* the entries of the records of archive a named key are in a compression
\* method the code does not support
UnsupportedIn(a, key) ==
    /\ RecordsNamed(a, key) # {}
    /\ \A k \in RecordsNamed(a, key) : Entries(a)[k].method \notin {0, 8}

\* the first source of the search path whose index has key is at place i
FirstIndexed(i, key) ==
    /\ i \in ZipSources
    /\ key \in DOMAIN m_search_path[i].m_index
    /\ \A j \in 1..(i - 1) :
          j \in ZipSources /\ key \notin DOMAIN m_search_path[j].m_index

(* C11 as amended: open(name) reports the same value, FatalError::Decode,  *)
(* when no registered source has the name and when the first source that   *)
(* has it holds the entry in an unsupported compression method.            *)
C11_SameError ==
    ret.op = "open"
    => /\ NotFound(ret.key)
          => ret.val = FatalError_Decode /\ stream = NoStream
       /\ \A i \in ZipSources :
             (FirstIndexed(i, ret.key)
              /\ UnsupportedIn(m_search_path[i].arg[1], ret.key))
             => ret.val = FatalError_Decode /\ stream = NoStream

\* open of a name no source has, with a source registered that holds an
\* entry in an unsupported method under another name
C11_Witness ==
    /\ ret.op = "open"
    /\ NotFound(ret.key)
    /\ ret.val = FatalError_Decode
    /\ \E i \in ZipSources :
          \E k \in Keys : UnsupportedIn(m_search_path[i].arg[1], k)

-----------------------------------------------------------------------------
(* The search path of directories and archives                             *)

\* no source before place i of the search path holds key
FirstHolder(i, key) ==
    /\ Holds(m_search_path[i], key)
    /\ \A j \in 1..(i - 1) : ~Holds(m_search_path[j], key)

\* source src can deliver key: a directory that holds it, or an archive
\* that holds it in a method the code supports
Supported(src, key) ==
    /\ Holds(src, key)
    /\ src.kind = "zip" => ~UnsupportedIn(src.arg[1], key)

(* C12: when the first source in priority order that holds the name is an  *)
(* archive whose entry is in a compression method other than 0 and 8,      *)
(* open(name) fails with FatalError::Decode, returns no stream, and asks   *)
(* no source after that archive.                                           *)
C12_UnsupportedIsFatal ==
    ret.op = "open"
    => \A i \in DOMAIN m_search_path :
          (/\ FirstHolder(i, ret.key)
           /\ m_search_path[i].kind = "zip"
           /\ UnsupportedIn(m_search_path[i].arg[1], ret.key))
          => /\ ret.val = FatalError_Decode
             /\ stream = NoStream
             /\ ret.n = i

(* C13: a source that does not hold the name is passed over without an     *)
(* error: when sources that miss the name come before a source that holds  *)
(* it and can deliver it, open(name) succeeds with that source's stream.   *)
C13_MissIsNotFatal ==
    ret.op = "open"
    => \A i \in DOMAIN m_search_path :
          (/\ i > 1
           /\ FirstHolder(i, ret.key)
           /\ Supported(m_search_path[i], ret.key))
          => /\ ret.val = "stream"
             /\ stream.src = m_search_path[i].id

-----------------------------------------------------------------------------
(* Files that end early                                                    *)

\* file a ends inside the fixed part of its EOCD record, after the
\* signature: a read of the record's fields comes back short
EndsInEOCD(a) ==
    /\ ArchiveSpec[a].pad = 0
    /\ Len(Archives[a]) >= RealEOCD(Entries(a), ArchiveSpec[a].comment) + 4
    /\ Len(Archives[a]) < RealEOCD(Entries(a), ArchiveSpec[a].comment) + 22

(* C14: add_zip of a file that ends while the fields of the EOCD record    *)
(* are read fails with FatalError::Decode, and no source is registered     *)
(* with an index made from values that were not fully read.                *)
C14_ShortReadIsFatal ==
    /\ (ret.op = "add_zip" /\ ret.key[1] \in ArchiveIds
        /\ EndsInEOCD(ret.key[1]))
       => ret.val = FatalError_Decode
    /\ \A i \in ZipSources : ~EndsInEOCD(m_search_path[i].arg[1])

-----------------------------------------------------------------------------
(* The backward scan for the EOCD record                                   *)

\* the windows the scan of a file of size bytes has to read: back from the
\* end of the file to the window at offset 0, and never more than NumWindows
ScanWindows(size) ==
    Min(NumWindows,
        IF size <= WindowSize THEN 1
        ELSE (size + WindowSize - 1) \div WindowSize)

\* where the k-th window from the end starts
WindowAt(size, k) == Max(size - WindowSize * (k + 1), 0)

\* none of the windows the scan reads holds the EOCD signature
NoSignature(file) ==
    \A k \in 0..(ScanWindows(Len(file)) - 1) :
       ~HoldsSig(Bytes(file, WindowAt(Len(file), k),
                       Min(WindowSize, Len(file) - WindowAt(Len(file), k))))

(* C15: add_zip of a file with no EOCD signature in any of the at most 64  *)
(* one-KiB windows read back from its end fails with FatalError::Decode    *)
(* and registers nothing; the scan reads no more than 64 windows and ends  *)
(* with the window that starts at offset 0.                                *)
C15_NoSignature ==
    /\ (ret.op = "add_zip" /\ ret.key[1] \in ArchiveIds
        /\ NoSignature(Archives[ret.key[1]]))
       => /\ ret.val = FatalError_Decode
          /\ ret.n = ScanWindows(Len(Archives[ret.key[1]]))
          /\ ret.n <= NumWindows
    /\ \A i \in ZipSources : ~NoSignature(ArchiveOf(m_search_path[i]))

\* add_zip of the file of more than 64 windows has failed after 64 windows
C15_Witness ==
    /\ ret.op = "add_zip"
    /\ ret.key = <<BigArchive>>
    /\ ret.val = FatalError_Decode
    /\ ret.n = NumWindows

-----------------------------------------------------------------------------
(* Sources of equal priority                                               *)

\* source i is the first, in priority order and among equal priorities in
\* the order of the add calls, of the sources that hold key
FirstAdded(i, key) ==
    /\ Holds(m_search_path[i], key)
    /\ \A k \in DOMAIN m_search_path :
          Holds(m_search_path[k], key)
          => \/ m_search_path[i].p < m_search_path[k].p
             \/ /\ m_search_path[i].p = m_search_path[k].p
                /\ m_search_path[i].id <= m_search_path[k].id

(* C16: sources of equal priority are asked in the order they were added,  *)
(* and for a name that two sources of the same priority hold, open(name)   *)
(* returns the content of the one added first.                             *)
C16_TiesByInsertion ==
    /\ \A i, j \in DOMAIN m_search_path :
          (i < j /\ m_search_path[i].p = m_search_path[j].p)
          => m_search_path[i].id < m_search_path[j].id
    /\ ret.op = "open"
       => \A i, j \in DOMAIN m_search_path :
             (/\ m_search_path[i].arg # m_search_path[j].arg
              /\ m_search_path[i].p = m_search_path[j].p
              /\ FirstAdded(i, ret.key)
              /\ Holds(m_search_path[j], ret.key)
              /\ Supported(m_search_path[i], ret.key))
             => /\ ret.val = "stream"
                /\ stream.src = m_search_path[i].id

(* C17: when no registered source holds the name, and so when no source is *)
(* registered at all, open(name) fails with FatalError::Decode and returns *)
(* no stream; a stream that open returns is there and in the good state.   *)
C17_NotFoundThrows ==
    ret.op = "open"
    => /\ (\A i \in DOMAIN m_search_path : ~Holds(m_search_path[i], ret.key))
          => ret.val = FatalError_Decode /\ stream = NoStream
       /\ ret.val = "stream"
          => stream # NoStream /\ ~stream.eof /\ ~stream.fail

-----------------------------------------------------------------------------
(* Entries of no bytes                                                     *)

\* in search path sp the first archive that has key in its index holds it
\* as a stored entry whose size field is 0
EmptyStored(sp, key) ==
    \E i \in DOMAIN sp :
       /\ key \in DOMAIN sp[i].m_index
       /\ \A j \in 1..(i - 1) : key \notin DOMAIN sp[j].m_index
       /\ HdrMethod(ArchiveOf(sp[i]), sp[i].m_index[key]) = 0
       /\ HdrCompressedSize(ArchiveOf(sp[i]), sp[i].m_index[key]) = 0

(* C18: a stored entry whose size field is 0 opens with a stream that is   *)
(* there and good, and the first read of that stream reports end-of-data,  *)
(* delivers no byte and leaves the archive's stream as it was.             *)
C18_EmptyEntry ==
    [][/\ (ret'.op = "open" /\ EmptyStored(m_search_path', ret'.key))
          => /\ ret'.val = "stream"
             /\ stream'.kind = "cat"
             /\ ~stream'.eof /\ ~stream'.fail
       /\ (/\ ret.op = "open" /\ ret.val = "stream"
           /\ EmptyStored(m_search_path, ret.key)
           /\ ret'.op = "get")
          => /\ ret'.val = "eof"
             /\ stream'.eof
             /\ stream'.out = <<>>
             /\ m_search_path' = m_search_path]_vars

\* the first read of the stream of an empty stored entry has reported
\* end-of-data
C18_Witness ==
    /\ ret.op = "get"
    /\ ret.val = "eof"
    /\ stream.kind = "cat"
    /\ stream.m_off_beg = stream.m_off_end
    /\ stream.m_off_pos = stream.m_off_beg
    /\ stream.out = <<>>
    /\ EmptyStored(m_search_path, ret.key)

-----------------------------------------------------------------------------
(* Registering a directory                                                 *)

\* search path sp with its k-th element taken out
Without(sp, k) ==
    [i \in 1..(Len(sp) - 1) |-> IF i < k THEN sp[i] ELSE sp[i + 1]]

(* C19: add_directory(p, path) fails with FatalError::Decode and leaves    *)
(* the search path as it was when path does not exist or is not a          *)
(* directory; otherwise it adds exactly one source to the search path, a   *)
(* directory source of priority p made from path, and keeps the others.    *)
C19_AddDirectory ==
    [][ret'.op = "add_directory"
       => IF ret'.key \in DiskDirs
          THEN /\ ret'.val = "ok"
               /\ Len(m_search_path') = Len(m_search_path) + 1
               /\ \E k \in DOMAIN m_search_path' :
                     /\ m_search_path'[k].kind = "dir"
                     /\ m_search_path'[k].p = ret'.arg
                     /\ m_search_path'[k].arg = ret'.key
                     /\ Without(m_search_path', k) = m_search_path
          ELSE /\ ret'.val = FatalError_Decode
               /\ m_search_path' = m_search_path]_vars

\* a second source has been registered by add_directory
C19_Witness ==
    /\ ret.op = "add_directory"
    /\ ret.val = "ok"
    /\ Len(m_search_path) = 2
    /\ \E k \in DOMAIN m_search_path :
          /\ m_search_path[k].kind = "dir"
          /\ m_search_path[k].id = 2
          /\ m_search_path[k].p = ret.arg

-----------------------------------------------------------------------------
(* The inflating stream                                                    *)

\* what raw inflate has decoded once it was fed the first bytes, data, of a
\* stream made of one stored block: the block's bytes after its five-byte
\* header
Decoded(data) ==
    IF Len(data) <= 5 THEN <<>>
    ELSE SubSeq(data, 6, Min(Len(data), 5 + Swap16LE(SubSeq(data, 2, 3))))

(* C20: a stream over a deflated entry reports end-of-data only when the   *)
(* compressed input of its window is used up and the bytes decoded from    *)
(* what was fed to the inflater, the last chunk included, were delivered.  *)
C20_EofAfterOutput ==
    (stream # NoStream /\ stream.kind = "deflate"
     /\ ret.op = "get" /\ ret.val = "eof")
    => /\ stream.m_off_pos >= stream.m_off_end
       /\ stream.out = Decoded(Bytes(StreamFile(stream), stream.m_off_beg,
                                     stream.zin))

-----------------------------------------------------------------------------
(* Compressed bytes the inflate engine rejects                             *)

\* inflate() reports Z_DATA_ERROR for data that starts a block of the
\* reserved type: bits 1 and 2 of the first byte are both set
InflateRejects(data) == Len(data) > 0 /\ (data[1] \div 2) % 4 = 3

(* C21: once the inflate engine was fed a chunk it rejects, the stream     *)
(* over the deflated entry is failed and stays so: it has delivered no     *)
(* byte, and the engine was fed that one chunk only.                       *)
C21_FailedIsAbsorbing ==
    (/\ stream # NoStream
     /\ stream.kind = "deflate"
     /\ InflateRejects(Bytes(StreamFile(stream), stream.m_off_beg,
                             stream.zin)))
    => /\ stream.fail
       /\ stream.out = <<>>
       /\ stream.zin <= StorageSize

-----------------------------------------------------------------------------
(* Two streams over one archive                                            *)

\* the archive offset of the byte stream s delivers next, by the stream's
\* own fields: the next byte of its get area, or its stored position
LogicalPos(s) == IF s.g < Len(s.buf) THEN s.bufoff + s.g ELSE s.m_off_pos

\* stream s is a window over the payload of the entry it was opened for,
\* and the window lies within the archive file
OverEntry(s) ==
    /\ s.kind = "cat"
    /\ s.m_off_beg = PayloadStart(StreamFile(s), StreamHdr(s))
    /\ s.m_off_end = s.m_off_beg + HdrCompressedSize(StreamFile(s),
                                                     StreamHdr(s))
    /\ s.m_off_end <= Len(StreamFile(s))

\* what a read of stream s gives when nothing but s uses the archive: the
\* archive's stream is then in the good state when the read begins
AloneGet(s) ==
    istream_get(s, FreshFile, StreamFile(s), CHOOSE ub \in UBOutcomes : TRUE)

(* C22: with two streams opened over different entries of one archive and  *)
(* their calls interleaved in any order, a call on one stream leaves the   *)
(* other stream as it was, and a read gives the stream what it gives when  *)
(* the stream is used alone: the same byte or end-of-data, and the same    *)
(* state of the stream afterwards.                                         *)
C22_Interleaved ==
    [][/\ ret'.op \in {"open", "get", "seekg"} => held' = held
       /\ (ret'.op = "get" /\ held # NoStream /\ OverEntry(stream))
          => /\ stream' = AloneGet(stream).s
             /\ ret'.n = AloneGet(stream).val]_vars
\* the index of source src has key, and the entry it leads to is stored
\* and lies within the archive file
Intact(src, key) ==
    /\ key \in DOMAIN src.m_index
    /\ HdrMethod(ArchiveOf(src), src.m_index[key]) = 0
    /\ PayloadStart(ArchiveOf(src), src.m_index[key])
       + HdrCompressedSize(ArchiveOf(src), src.m_index[key])
          <= Len(ArchiveOf(src))

(* C29: after a read of one stream ran into the end of the archive file    *)
(* and left the archive's stream failed, a read of another stream over an  *)
(* intact entry still delivers that entry's next byte, and open(name) of   *)
(* an intact entry still returns a stream over that entry's payload.       *)
C29_FailureIsolation ==
    [][/\ (/\ ret'.op = "get"
           /\ OverEntry(stream)
           /\ StreamIst(stream).fail
           /\ ~stream.eof /\ ~stream.fail
           /\ stream.m_off_beg <= LogicalPos(stream)
           /\ LogicalPos(stream) < stream.m_off_end)
          => /\ ret'.val = "byte"
             /\ ret'.n = StreamFile(stream)[LogicalPos(stream) + 1]
       /\ (/\ ret'.op = "open"
           /\ \E i \in ZipSources :
                 /\ m_search_path[i].m_file.fail
                 /\ FirstIndexed(i, ret'.key)
                 /\ Intact(m_search_path[i], ret'.key))
          => /\ ret'.val = "stream"
             /\ OverEntry(stream')]_vars

-----------------------------------------------------------------------------
(* static_int_map                                                          *)

(* C23: when remove is only given indices that are allocated (returned by  *)
(* insert and not removed since), insert() returns the null index exactly  *)
(* when all capacity indices are allocated, and otherwise an index below   *)
(* capacity that is not allocated.                                         *)
C23_FreshIndex ==
    [][ret'.op = "insert"
       => IF map.live = 0..(capacity - 1)
          THEN ret'.val = "null" /\ map'.live = map.live
          ELSE /\ ret'.val = "index"
               /\ 0 <= ret'.n /\ ret'.n < capacity
               /\ ret'.n \notin map.live
               /\ map'.live = map.live \cup {ret'.n}]_vars

\* insert() has handed out a removed index, and the map is full again
C23_Witness ==
    /\ ret.op = "insert"
    /\ ret.val = "index"
    /\ ret.n < capacity - 1
    /\ map.live = 0..(capacity - 1)
    /\ map.num_used_objects = capacity

\* the free list of the map: the elements of free_objects in use
FreeList(m) ==
    [k \in 0..(Min(m.num_free_objects, capacity) - 1) |-> m.free_objects[k]]

(* C30: after calls of insert() and of remove(i) with i < num_used_objects *)
(* (the assertion of remove), num_free_objects <= num_used_objects <=      *)
(* capacity, no index is twice in the free list, and remove has not        *)
(* written free_objects at an index of capacity or more.                   *)
C30_Counters ==
    /\ map.num_free_objects <= map.num_used_objects
    /\ map.num_used_objects <= capacity
    /\ \A j, k \in DOMAIN FreeList(map) :
          j # k => FreeList(map)[j] # FreeList(map)[k]
    /\ ~map.oob

-----------------------------------------------------------------------------
\* the names of the central directory records of archive a
RecordNames(a) == {Entries(a)[k].name : k \in DOMAIN Entries(a)}

\* archive a is well formed with records of pairwise distinct names: the
\* file is whole, and its only EOCD signature is the one of its EOCD record
DistinctRecords(a) ==
    /\ ArchiveSpec[a].cut = 0
    /\ Cardinality(RecordNames(a)) = Len(Entries(a))
    /\ ~HoldsSig(ArchiveSpec[a].comment)

(* C24: once add_zip has succeeded on a well-formed archive whose central  *)
(* directory has N records of pairwise distinct names, the index has       *)
(* exactly N entries, one per record: the record's file name mapped to the *)
(* local header offset the record carries, whatever the lengths of the     *)
(* extra fields and file comments the records before it end with.          *)
C24_IndexExact ==
    \A i \in ZipSources :
       DistinctRecords(m_search_path[i].arg[1])
       => /\ DOMAIN m_search_path[i].m_index
               = RecordNames(m_search_path[i].arg[1])
          /\ Cardinality(DOMAIN m_search_path[i].m_index)
               = Len(Entries(m_search_path[i].arg[1]))
          /\ \A k \in DOMAIN Entries(m_search_path[i].arg[1]) :
                m_search_path[i].m_index[Entries(m_search_path[i].arg[1])[k].name]
                   = EntryOffset(m_search_path[i].arg[1], k)

\* add_zip has just succeeded on an archive of two records, the first of
\* them ending with an extra field and a file comment
C24_Witness ==
    /\ ret.op = "add_zip" /\ ret.val = "ok"
    /\ DistinctRecords(ret.key[1])
    /\ Len(Entries(ret.key[1])) = 2
    /\ Entries(ret.key[1])[1].cextra # <<>>
    /\ Entries(ret.key[1])[1].ccomment # <<>>
    /\ \E i \in ZipSources : m_search_path[i].arg = ret.key

-----------------------------------------------------------------------------
\* stream s has delivered k bytes since it was opened, or since it was at
\* the start of its window: the first k bytes of the window
DeliveredFromStart(s, k) ==
    /\ s.kind = "cat"
    /\ ~s.fail
    /\ Len(s.out) = k
    /\ \A j \in DOMAIN s.offs : s.offs[j] = s.m_off_beg + j - 1
    /\ k = 0 => (s.buf = <<>> /\ s.m_off_pos = s.m_off_beg)

(* C25: the position of a BoundedStream is the caller's: when the stream   *)
(* has delivered k bytes from the start of its window, a seek by d from    *)
(* the current position with 0 <= k + d <= end - begin returns k + d (for  *)
(* d = 0, tellg returns k), however many bytes the get area holds.         *)
C25_LogicalPosition ==
    [][(/\ ret'.op = "seekg" /\ ret'.val = "cur"
        /\ DeliveredFromStart(stream, Len(stream.out))
        /\ 0 <= Len(stream.out) + ret'.arg
        /\ Len(stream.out) + ret'.arg <= stream.m_off_end - stream.m_off_beg)
       => ret'.n = Len(stream.out) + ret'.arg]_vars

-----------------------------------------------------------------------------
-----------------------------------------------------------------------------
\* the offsets of file at which the EOCD signature starts
SigStarts(file) ==
    {j \in 0..(Len(file) - 4) : SubSeq(file, j + 1, j + 4) = SigEOCD}

\* file holds the EOCD signature once, and it starts within the bytes the
\* NumWindows windows of the scan cover
OneSignature(file) ==
    /\ Cardinality(SigStarts(file)) = 1
    /\ \A j \in SigStarts(file) : Len(file) - j <= NumWindows * WindowSize

(* C27: add_zip of a file that holds the EOCD signature exactly once,      *)
(* within its last 64 KiB, finds the signature and goes on to index the    *)
(* archive, whatever the length of the trailing comment: also when the     *)
(* four bytes lie across the boundary of two windows of the scan.          *)
C27_ScanFinds ==
    (/\ ret.op = "add_zip"
     /\ ret.key[1] \in ArchiveIds
     /\ OneSignature(Archives[ret.key[1]]))
    => ret.val = "ok"

-----------------------------------------------------------------------------
(* C28: an add_directory or add_zip that fails with FatalError::Decode     *)
(* leaves the search path as it was: the same sources at the same          *)
(* priorities in the same order, each in the state it was in, so that      *)
(* every later open gives what it gave before; a stream the caller holds   *)
(* is not touched.                                                         *)
C28_FailedAddNoEffect ==
    [][(/\ ret'.op \in {"add_directory", "add_zip"}
        /\ ret'.val = FatalError_Decode)
       => /\ m_search_path' = m_search_path
          /\ stream' = stream
          /\ \A key \in Keys, junk \in Junk :
                search_from(m_search_path', 1, key, junk)
                   = search_from(m_search_path, 1, key, junk)]_vars

\* an add_zip of a file without an EOCD record has failed with a source
\* registered before it
C28_Witness ==
    /\ ret.op = "add_zip"
    /\ ret.val = FatalError_Decode
    /\ ret.key[1] \in ArchiveIds
    /\ m_search_path # <<>>

=============================================================================
